---- MODULE Spec2Model ----
(***************************************************************************)
(* Token/Session Manager (MiawApiClient, the singleton of                  *)
(* src/app/lib/miawApiService.ts) and the route handlers that share it.    *)
(* Every handler is an async function on one event loop.  An await of a    *)
(* vendor HTTP call suspends it until the answer arrives, and other        *)
(* handlers run meanwhile.  An await of a promise that is already settled  *)
(* (an async method that returned without I/O) resumes in the same         *)
(* microtask checkpoint, before the event loop delivers any other I/O      *)
(* completion, so no other handler runs in between.  A step of the model   *)
(* is therefore the code from one I/O completion to the next I/O await.    *)
(* A request is a slot of req; its pc names the vendor call it awaits.     *)
(***************************************************************************)
EXTENDS Integers, Sequences, FiniteSets, TLC

VARIABLES
  token,              \* MiawApiClient.token
  tokenExpiresAt,     \* MiawApiClient.tokenExpiresAt (minutes)
  continuationToken,  \* MiawApiClient.continuationToken
  now,                \* Date.now() (minutes)
  req,                \* the handlers in flight, one record per slot
  budget,             \* number of requests that may still start
  closedConvs,        \* conversations whose closure the vendor confirmed
  everCreated,        \* a vendor conversation-create call has succeeded
  everSupplied,       \* a continuation token was supplied from a cookie
  tokenIssuedAt,      \* the time the cached access token was asked for
  ui,                 \* each browser's page state (isCreatingSession, isSessionActive)
  relay,              \* one event stream: upstream bytes, buffer, forwarded events, sink
  page,               \* one chat page: processedMessageIds, messages, its event connections
  batch               \* one conversations POST: the ids asked for and how each fetch settled

vars == <<token, tokenExpiresAt, continuationToken, now, req, budget,
          closedConvs, everCreated, everSupplied, tokenIssuedAt, ui, relay, page, batch>>

(* ---------------------------- bounds ---------------------------------- *)
MaxStarts == 3
MaxMixedStarts == 2
MaxCreateStarts == 2
MaxTokenCalls == 2
MaxNow == 60
MaxFrames == 2
MaxSessions == 2
MaxEvents == 2
MaxAckStarts == 2
MaxIds == 3

(* ------------------------- program constants -------------------------- *)
TokenLifetime == 60
ExpiryBuffer == 5
MaxMsgLen == 2000
NoExpiry == 0   \* tokenExpiresAt = null: as falsy as 0, which is never stored

(* ----------------------------- values --------------------------------- *)
Null == "null"
Undefined == "undefined"
Empty == ""
Truthy(x) == x \notin {Null, Undefined, Empty}

Req == {1, 2}
AccessTokens == {"AT1", "AT2"}
ContTokens == {"CT1", "CT2", "CT3"}
\* the vendor never issues the same token twice in a row
FreshAccessToken(tok) == IF tok = "AT1" THEN "AT2" ELSE "AT1"
\* the continuation token the vendor issues to a call that names no conversation
FreshContToken == "CT3"
Conv == {"c1", "c2"}
TokenOf(c) == IF c = "c1" THEN "CT1" ELSE "CT2"
TickSteps == {5}

NoCookie == [kind |-> "none", conversationId |-> Undefined, continuationToken |-> Undefined]
GarbageCookie == [kind |-> "garbage", conversationId |-> Undefined, continuationToken |-> Undefined]
JsonCookie(c, t) == [kind |-> "json", conversationId |-> c, continuationToken |-> t]
\* each slot is one browser; it holds the cookie of its own conversation, whole
\* or damaged, or none
ConvOf(r) == IF r = 1 THEN "c1" ELSE "c2"
Cookies(r) ==
  {NoCookie, GarbageCookie, JsonCookie(Undefined, Undefined),
   JsonCookie(ConvOf(r), Undefined), JsonCookie(ConvOf(r), TokenOf(ConvOf(r)))}

\* the JSON body of a message POST: which fields it has, and the length of msg
NoBody == [parsed |-> TRUE, messageId |-> FALSE, messageType |-> "text", msgLen |-> 0,
           optionIdentifier |-> FALSE, answers |-> 0, inReplyToMessageId |-> FALSE]
TextBody == [NoBody EXCEPT !.messageId = TRUE, !.msgLen = 1]
ChoiceBody == [NoBody EXCEPT !.messageId = TRUE, !.messageType = "choice",
                             !.optionIdentifier = TRUE, !.inReplyToMessageId = TRUE]
FormBody == [NoBody EXCEPT !.messageId = TRUE, !.messageType = "form",
                           !.answers = 1, !.inReplyToMessageId = TRUE]
MessageBodies ==
  { TextBody, ChoiceBody, FormBody,
    [TextBody EXCEPT !.parsed = FALSE],
    [TextBody EXCEPT !.messageId = FALSE],
    [TextBody EXCEPT !.messageType = "other"],
    [TextBody EXCEPT !.msgLen = 0],
    [TextBody EXCEPT !.msgLen = MaxMsgLen + 1],
    [ChoiceBody EXCEPT !.optionIdentifier = FALSE],
    [ChoiceBody EXCEPT !.inReplyToMessageId = FALSE],
    [FormBody EXCEPT !.answers = 0],
    [FormBody EXCEPT !.inReplyToMessageId = FALSE] }

\* a handler's response: status, the body's action, retryable, message and
\* conversationId fields, what it does to the cookie, the cookie it sets, and
\* the Manager's continuation token when it was built
NoResp == [status |-> 0, action |-> "", retryable |-> "absent", cookie |-> "kept", ct |-> Null,
           message |-> Undefined, conversationId |-> Undefined, setCookie |-> NoCookie]
NoSnap == [tok |-> Null, issuedAt |-> 0, at |-> 0]
\* the body of a session/create POST: jobApplicationNumber, and
\* termsAndConditionAgreed as the boolean true or false, the string 'true', or absent
NoInput == [job |-> "", terms |-> "undefined"]
\* the body of an acknowledgment POST: the vendor message id it names (messageId
\* for the acknowledgment route, conversationEntryId for the read route) and
\* acknowledgmentType
NoAck == [messageId |-> Undefined, conversationEntryId |-> Undefined,
          acknowledgmentType |-> Undefined]
IdleReq == [kind |-> "idle", pc |-> "idle", stack |-> <<>>, cookie |-> NoCookie, input |-> NoInput,
            ack |-> NoAck,
            force |-> FALSE, t0 |-> 0, fresh |-> FALSE, http |-> 0, snap |-> NoSnap,
            ctBefore |-> Null, log |-> <<>>, resp |-> NoResp]

\* the page's session state, part_000 lines 965-966
IdleUi == [isCreatingSession |-> FALSE, isSessionActive |-> FALSE]
\* the conversation id a session/create draws (randomUUID)
NewConv == "c3"

Ev(e, a) == [e |-> e, a |-> a]
Logged(rq, e, a) == [rq EXCEPT !.log = Append(@, Ev(e, a))]
Push(rq, f) == [rq EXCEPT !.stack = <<f>> \o @]
Pop(rq) == [rq EXCEPT !.stack = Tail(@)]
Top(rq) == IF rq.stack = <<>> THEN "" ELSE Head(rq.stack)
Has(rq, e) == \E i \in 1..Len(rq.log) : rq.log[i].e = e
IndexOf(rq, e) == CHOOSE i \in 1..Len(rq.log) : rq.log[i].e = e
Includes(msg, w) == \E i \in 1..Len(msg) : msg[i] = w

(* ------------------- the event relay: bytes and text ------------------- *)
\* A byte is "a", "b" (ASCII letters), "n" (the newline) or one of the two
\* bytes "H", "L" of a two-byte UTF-8 character.  A character is a letter, the
\* newline, "U+E9" (the decoded two-byte character) or "U+FFFD" (the
\* replacement character a decoder puts for an incomplete sequence).
RECURSIVE Utf8(_)
\* decoding of a whole byte sequence, as Buffer.toString() and
\* TextDecoder.decode() without stream do it
Utf8(c) ==
  IF c = <<>> THEN <<>>
  ELSE IF c[1] = "H" /\ Len(c) >= 2 /\ c[2] = "L"
         THEN <<"U+E9">> \o Utf8(SubSeq(c, 3, Len(c)))
       ELSE IF c[1] \in {"H", "L"}
         THEN <<"U+FFFD">> \o Utf8(Tail(c))
       ELSE <<c[1]>> \o Utf8(Tail(c))

\* the bytes TextDecoder.decode(value, {stream: true}) holds back: an
\* incomplete sequence at the end of the input
HeldBack(c) == IF c # <<>> /\ c[Len(c)] = "H" THEN <<"H">> ELSE <<>>

RECURSIVE Split(_)
\* String.prototype.split("\n\n")
Split(t) ==
  IF \E i \in 1..(Len(t) - 1) : t[i] = "n" /\ t[i + 1] = "n"
    THEN LET i == CHOOSE i \in 1..(Len(t) - 1) :
                    /\ t[i] = "n" /\ t[i + 1] = "n"
                    /\ \A j \in 1..(i - 1) : ~(t[j] = "n" /\ t[j + 1] = "n")
         IN <<SubSeq(t, 1, i - 1)>> \o Split(SubSeq(t, i + 2, Len(t)))
    ELSE <<t>>

\* eventData.trim() is not empty
NotBlank(t) == \E i \in 1..Len(t) : t[i] # "n"

Front(q) == SubSeq(q, 1, Len(q) - 1)
Last(q) == q[Len(q)]
RECURSIVE Keep(_)
\* the events of a split that are forwarded, in order
Keep(q) ==
  IF q = <<>> THEN <<>>
  ELSE IF NotBlank(Head(q)) THEN <<Head(q)>> \o Keep(Tail(q)) ELSE Keep(Tail(q))

\* the frames the vendor sends: one line, two lines, a two-byte character
Frames == {<<"a">>, <<"a", "n", "b">>, <<"H", "L">>}
\* the frame the stream breaks off in: nothing, a line, a line with its
\* newline, a two-byte character
Partials == {<<>>, <<"b">>, <<"a", "n">>, <<"H", "L">>}
FrameSeqs == UNION {[1..n -> Frames] : n \in 0..MaxFrames}
RECURSIVE Wire(_, _)
\* the bytes on the wire: every complete frame ends with a blank line
Wire(fs, p) == IF fs = <<>> THEN p ELSE Head(fs) \o <<"n", "n">> \o Wire(Tail(fs), p)

IdleRelay == [mode |-> "off", frames |-> <<>>, partial |-> <<>>, up |-> <<>>,
              pending |-> <<>>, buffer |-> <<>>, forwarded |-> <<>>,
              upstream |-> "open", sink |-> "open", chunks |-> 0]
RelayStart(m, fs, p) ==
  [IdleRelay EXCEPT !.mode = m, !.frames = fs, !.partial = p, !.up = Wire(fs, p)]

\* subscribeEvents, lines 1038-1090: response.data.on('data', ...)
OnData(rl, chunk) ==
  LET events == Split(rl.buffer \o Utf8(chunk))
  IN [rl EXCEPT !.buffer = Last(events),
                !.forwarded = @ \o Keep(Front(events)),
                !.chunks = @ + 1]

\* processStream of part_000, lines 1052-1120, for one reader.read()
OnRead(rl, value) ==
  LET input == rl.pending \o value
      held == HeldBack(input)
      events == Split(rl.buffer \o Utf8(SubSeq(input, 1, Len(input) - Len(held))))
  IN [rl EXCEPT !.pending = held,
                !.buffer = Last(events),
                !.forwarded = @ \o Keep(Front(events)),
                !.chunks = @ + 1]

OnEndAsError(rl) == [rl EXCEPT !.upstream = "ended", !.sink = "errored"]
\* subscribeEvents, lines 1093-1096: response.data.on('end', ...)
OnEnd(rl) == [rl EXCEPT !.upstream = "ended", !.sink = "closed"]
\* subscribeEvents, lines 1098-1101: response.data.on('error', ...)
OnError(rl) == [rl EXCEPT !.upstream = "errored", !.sink = "errored"]

(* ------------------- MiawApiClient: token cache ----------------------- *)
CacheValidNoBuffer(forceRefresh, tok, exp, t) ==
  ~forceRefresh /\ Truthy(tok) /\ exp # NoExpiry /\ t < exp

\* getToken, line 790: the cached token is returned without a vendor call
CacheValid(forceRefresh, tok, exp, t) ==
  /\ ~forceRefresh
  /\ Truthy(tok)
  /\ exp # NoExpiry
  /\ t < exp - ExpiryBuffer

\* getToken, line 799: the expiry stored with a new token
NewExpiry(t0) == t0 + TokenLifetime

\* generateNewToken / getToken, lines 825 and 796: the vendor's answers
TokenOutcomes == {"accessToken", "errorCode", "noAccessToken", "networkError"}
TokenAcceptedLoose(out) == out \in {"accessToken", "noAccessToken"}
TokenAccepted(out) == out = "accessToken"

(* ---------------- session/delete: error classification ---------------- *)
\* the vendor's answers to DELETE conversation; "none" is an error without a response
CloseOutcomes == {"200", "404", "403", "500", "none"}

\* `${error.response?.status} ${error.response?.statusText}`, line 1150
StatusWords(s) ==
  CASE s = "404" -> <<"404", "Not", "Found">>
    [] s = "403" -> <<"403", "Forbidden">>
    [] s = "500" -> <<"500", "Internal", "Server", "Error">>
    [] OTHER -> <<"undefined", "undefined">>

CloseConversationErrorNoStatus(isAxios, status) ==
  <<"Failed", "to", "close", "conversation">>

\* closeConversation, lines 1143-1154: the error it rethrows
CloseConversationError(isAxios, status) ==
  IF isAxios
    THEN <<"Failed", "to", "close", "conversation:">> \o StatusWords(status)
    ELSE <<"Failed", "to", "close", "conversation">>

\* DELETE of session/delete/route.ts, lines 81-123: the catch block
DeleteCatch(msg) ==
  IF Includes(msg, "404")
    THEN [NoResp EXCEPT !.status = 200, !.action = "already_closed", !.cookie = "deleted"]
    ELSE [NoResp EXCEPT !.status = IF Includes(msg, "403") THEN 403 ELSE 500,
                        !.action = "close_failed",
                        !.retryable = IF Includes(msg, "403") THEN "false" ELSE "true"]

\* DELETE of part_002, lines 58-69: the catch block
DeleteCatchV1(msg) ==
  [NoResp EXCEPT !.status = 200, !.action = "ended_with_errors", !.cookie = "deleted"]

CloseSuccessStepsSwapped(kind) == <<"delCookie", "clearCT">>

\* what each DELETE does, in order, once closeConversation has returned
CloseSuccessSteps(kind) ==
  IF kind = "delete" THEN <<"clearCT", "delCookie">> ELSE <<"delCookie">>

(* ------------------------ the async call chain ------------------------ *)
IsStale(bearer) == \E c \in closedConvs : TokenOf(c) = bearer
Call(rq, op, bearer) ==
  Logged(IF IsStale(bearer) THEN Logged(rq, "stale", bearer) ELSE rq, op, bearer)

\* randomUUID()
RandomUuid == "uuid"
\* the acks entry sendAcknowledgment builds from its second and third
\* parameter, lines 998-1004
AckEntry(acknowledgmentId, acknowledgmentType) ==
  [messageId |-> acknowledgmentId, entryType |-> acknowledgmentType]
\* the arguments each route passes to sendAcknowledgment: acknowledgment/route.ts
\* line 62, and the read route, typing/started/route.ts line 142
AckArgs(rq) ==
  IF rq.kind = "ack"
    THEN AckEntry(RandomUuid, rq.ack.acknowledgmentType)
    ELSE AckEntry("Read", rq.ack.conversationEntryId)

\* the vendor call of the operation itself, once its headers are built
OpCall(rq, bearer) ==
  LET op == CASE rq.kind \in {"delete", "deleteV1"} -> "call:close"
              [] rq.kind = "message" -> "call:msg"
              [] rq.kind \in {"ack", "readAck"} -> "call:ack"
              [] OTHER -> "call:sse"
      called == Call(rq, op, bearer)
      sent == IF op = "call:ack"
                THEN Logged(Logged(called, "ack:messageId", AckArgs(rq).messageId),
                            "ack:entryType", AckArgs(rq).entryType)
                ELSE called
  IN [sent EXCEPT !.pc = "opWait"]

\* getToken returns tk to the frame that awaits it
TokenReturn(rq, tk) ==
  CASE Top(rq) = "gct" -> [Call(rq, "call:ct", tk) EXCEPT !.pc = "ctWait"]
    [] Top(rq) = "hdr" -> OpCall(Pop(rq), tk)
    [] Top(rq) = "conv" -> [Call(Pop(rq), "call:conv", tk) EXCEPT !.pc = "convWait"]
    [] OTHER -> [Pop(rq) EXCEPT !.pc = "done",
                                !.resp = [NoResp EXCEPT !.status = 200, !.action = tk]]

\* getToken, lines 786-795
GetTokenEntry(rq, forceRefresh, tok, exp, t) ==
  IF CacheValid(forceRefresh, tok, exp, t)
    THEN TokenReturn(rq, tok)
    ELSE [Logged(rq, "call:token", "") EXCEPT !.pc = "tokWait", !.t0 = t]

\* generateContinuationToken, lines 860-868 (getAuthHeaders, lines 851-857)
GctEntry(rq, tok, exp, t) == GetTokenEntry(Push(rq, "gct"), FALSE, tok, exp, t)

\* getAuthHeadersWithContinuation / getAuthOnlyHeaderWithContinuation
HdrEntry(rq, ct, tok, exp, t) ==
  IF Truthy(ct) THEN OpCall(rq, ct)
  ELSE GetTokenEntry(Push(rq, "hdr"), FALSE, tok, exp, t)

\* ensureContinuationToken, lines 880-882, and on its return the operation's
\* headers (sendMessage 984-986, closeConversation 1137-1140, subscribeEvents
\* 1018-1030)
EnsureEntry(rq, ct, tok, exp, t) ==
  IF Truthy(ct) THEN HdrEntry(rq, ct, tok, exp, t)
  ELSE GctEntry(Push(rq, "ensure"), tok, exp, t)

EnsureHoldsUnchecked(ct) == TRUE

\* ensureContinuationToken, lines 883-885
EnsureHolds(ct) == Truthy(ct)

(* -------------------------- error responses --------------------------- *)
FailResp(rq, isAxios, status) ==
  CASE rq.kind = "delete" -> DeleteCatch(CloseConversationError(isAxios, status))
    [] rq.kind = "deleteV1" -> DeleteCatchV1(CloseConversationError(isAxios, status))
    [] OTHER -> [NoResp EXCEPT !.status = 500, !.action = "failed",
                               !.message = CASE rq.kind = "create" -> "Session creation failed"
                                             [] rq.kind = "ack" -> "Failed to send acknowledgment"
                                             [] rq.kind = "readAck" -> "Failed to send read acknowledgment"
                                             [] rq.kind = "events" -> "Failed to subscribe to events"
                                             [] OTHER -> "Failed to send message"]

Respond(rq, resp, ct) ==
  LET r1 == IF resp.cookie = "deleted" THEN Logged(rq, "delCookie", "") ELSE rq
  IN [r1 EXCEPT !.pc = "done", !.stack = <<>>, !.resp = [resp EXCEPT !.ct = ct]]

Failed(rq, isAxios, status, ct) == Respond(rq, FailResp(rq, isAxios, status), ct)

(* ------------------------------ actions ------------------------------- *)
\* A handler that has responded (pc = "done") returns in the next step (Return)
\* before anything else runs: its record is read by nothing but the properties,
\* so taking that step first loses no behaviour.
Quiet == \A q \in Req : req[q].pc # "done"
CanStart(r) == Quiet /\ req[r].pc = "idle" /\ budget > 0
Waiting(r, pc) == Quiet /\ req[r].pc = pc

Frame == <<now, closedConvs, everCreated, tokenIssuedAt>>
\* the browsers' state, which no step of the Manager changes
Streams == <<relay, page, batch>>
Aside == <<ui, Streams>>

SuppliedTokenIgnored(ck, ct) == ct

\* if (continuationToken) miawClient.setContinuationToken(continuationToken):
\* the Manager's continuation token after it
SuppliedToken(ck, ct) ==
  IF Truthy(ck.continuationToken) THEN ck.continuationToken ELSE ct

\* the part of a handler from its try block to the first vendor call:
\* setContinuationToken(cookie token) when there is one, then the operation's
\* ensureContinuationToken
Enter(r, rq, ck) ==
  LET supplied == Truthy(ck.continuationToken)
      ct1 == SuppliedToken(ck, continuationToken)
      rq1 == IF supplied THEN Logged(rq, "setCT", ck.continuationToken) ELSE rq
      rq2 == [rq1 EXCEPT !.fresh = ~everCreated /\ ~everSupplied /\ ~supplied]
  IN /\ continuationToken' = ct1
     /\ everSupplied' = (everSupplied \/ supplied)
     /\ req' = [req EXCEPT ![r] = EnsureEntry(rq2, ct1, token, tokenExpiresAt, now)]

\* the cookie checks every session handler starts with; 0 when they pass
CookieReject(ck, noneStatus) ==
  CASE ck.kind = "none" -> noneStatus
    [] ck.kind = "garbage" -> 400
    [] ~Truthy(ck.conversationId) -> 400
    [] OTHER -> 0

\* DELETE of session/delete/route.ts, lines 10-63
StartDelete(r) ==
  /\ CanStart(r)
  /\ budget' = budget - 1
  /\ \E ck \in Cookies(r) :
       LET rq == [IdleReq EXCEPT !.kind = "delete", !.cookie = ck,
                                 !.ctBefore = continuationToken]
           rej == CookieReject(ck, 200)
       IN IF rej # 0
            THEN /\ req' = [req EXCEPT ![r] =
                      Respond(rq, [NoResp EXCEPT !.status = rej, !.action = "rejected"],
                              continuationToken)]
                 /\ UNCHANGED <<continuationToken, everSupplied>>
            ELSE Enter(r, rq, ck)
  /\ UNCHANGED <<token, tokenExpiresAt>>
  /\ UNCHANGED Frame
  /\ UNCHANGED Aside

\* DELETE of part_002, lines 10-50
StartDeleteV1(r) ==
  /\ CanStart(r)
  /\ budget' = budget - 1
  /\ \E ck \in Cookies(r) :
       LET rq == [IdleReq EXCEPT !.kind = "deleteV1", !.cookie = ck,
                                 !.ctBefore = continuationToken]
           rej == CookieReject(ck, 200)
       IN IF rej # 0
            THEN /\ req' = [req EXCEPT ![r] =
                      Respond(rq, [NoResp EXCEPT !.status = rej, !.action = "rejected"],
                              continuationToken)]
                 /\ UNCHANGED <<continuationToken, everSupplied>>
            ELSE Enter(r, rq, ck)
  /\ UNCHANGED <<token, tokenExpiresAt>>
  /\ UNCHANGED Frame
  /\ UNCHANGED Aside

\* getToken resumes with the vendor's answer, lines 795-803
TokenResp(r) ==
  /\ Waiting(r, "tokWait")
  /\ \E out \in TokenOutcomes :
       IF TokenAccepted(out)
         THEN /\ token' = FreshAccessToken(token)
              /\ tokenExpiresAt' = NewExpiry(req[r].t0)
              /\ tokenIssuedAt' = req[r].t0
              /\ req' = [req EXCEPT ![r] =
                   TokenReturn(Logged(Logged(@, "tokenResult", out), "storeToken", token'),
                               token')]
         ELSE /\ req' = [req EXCEPT ![r] =
                   Failed(Logged(@, "tokenResult", out), FALSE, "none", continuationToken)]
              /\ UNCHANGED <<token, tokenExpiresAt, tokenIssuedAt>>
  /\ UNCHANGED <<continuationToken, now, budget, closedConvs, everCreated, everSupplied>>
  /\ UNCHANGED Aside

\* POST of part_003, lines 45-67: createConversation has returned
\* the session object of part_003, lines 47-51, as the cookie it is stored in
SessionCookie(conv, ct) == JsonCookie(conv, Undefined)

CreateReturn(rq, ct) ==
  IF rq.http = 201
    THEN Respond(rq, [NoResp EXCEPT !.status = 200, !.action = "created", !.cookie = "set",
                                    !.conversationId = NewConv,
                                    !.setCookie = SessionCookie(NewConv, ct)], ct)
    ELSE Respond(rq, [NoResp EXCEPT !.status = 500, !.action = "failed",
                                    !.message = "Session creation failed"], ct)

\* generateContinuationToken returns to ensureContinuationToken (line 882) or
\* to createConversation (line 947)
CtReturn(rq, ct, tok, exp, t) ==
  IF Top(rq) = "ensure"
    THEN IF EnsureHolds(ct)
           THEN HdrEntry(Pop(rq), ct, tok, exp, t)
           ELSE Failed(rq, FALSE, "none", ct)
    ELSE CreateReturn(Pop(rq), ct)

\* generateContinuationToken resumes with the vendor's answer, lines 870-876
CtOutcomes == {FreshContToken, Undefined, "error"}
CtResp(r) ==
  /\ Waiting(r, "ctWait")
  /\ \E out \in CtOutcomes :
       IF out = "error"
         THEN /\ req' = [req EXCEPT ![r] = Failed(@, FALSE, "none", continuationToken)]
              /\ UNCHANGED continuationToken
         ELSE /\ continuationToken' = out
              /\ req' = [req EXCEPT ![r] = CtReturn(Pop(Logged(@, "storeCT", out)), out,
                                                   token, tokenExpiresAt, now)]
  /\ UNCHANGED <<token, tokenExpiresAt, budget, everSupplied>>
  /\ UNCHANGED Frame
  /\ UNCHANGED Aside

\* closeConversation resumes with the vendor's answer; the DELETE handler ends
ApplySteps(rq, steps) ==
  IF Len(steps) = 2 THEN Logged(Logged(rq, steps[1], ""), steps[2], "")
  ELSE Logged(rq, steps[1], "")
CloseResp(r) ==
  /\ Waiting(r, "opWait")
  /\ req[r].kind \in {"delete", "deleteV1"}
  /\ \E s \in CloseOutcomes :
       LET rq == Logged(req[r], "closeResult", s)
           steps == CloseSuccessSteps(rq.kind)
           ct1 == IF Includes(steps, "clearCT") THEN Empty ELSE continuationToken
       IN IF s = "200"
            THEN /\ closedConvs' = closedConvs \cup {rq.cookie.conversationId}
                 /\ continuationToken' = ct1
                 /\ req' = [req EXCEPT ![r] =
                      [ApplySteps(rq, steps) EXCEPT !.pc = "done", !.stack = <<>>,
                         !.resp = [NoResp EXCEPT !.status = 200, !.action = "closed",
                                                 !.cookie = "deleted", !.ct = ct1]]]
            ELSE /\ req' = [req EXCEPT ![r] = Failed(rq, TRUE, s, continuationToken)]
                 /\ UNCHANGED <<continuationToken, closedConvs>>
  /\ UNCHANGED <<token, tokenExpiresAt, now, budget, everCreated, everSupplied, tokenIssuedAt>>
  /\ UNCHANGED Aside

\* the Manager's cached fields
Manager == [token |-> token, tokenExpiresAt |-> tokenExpiresAt,
            continuationToken |-> continuationToken]
\* clearToken that leaves the session token in place
ClearAccessTokenOnly(m) == [m EXCEPT !.token = Null, !.tokenExpiresAt = NoExpiry]
\* the body of clearToken, lines 838-840
ClearTokenOf(m) ==
  [m EXCEPT !.token = Null, !.tokenExpiresAt = NoExpiry, !.continuationToken = Null]

\* clearToken, lines 837-842
ClearToken ==
  /\ Quiet
  /\ token' = ClearTokenOf(Manager).token
  /\ tokenExpiresAt' = ClearTokenOf(Manager).tokenExpiresAt
  /\ continuationToken' = ClearTokenOf(Manager).continuationToken
  /\ UNCHANGED <<req, budget, everSupplied>>
  /\ UNCHANGED Frame
  /\ UNCHANGED Aside

\* handleStartSession once fetch has resolved, part_000 lines 1596-1633
HandleStartSession(u, resp) ==
  [isCreatingSession |-> FALSE,
   isSessionActive |->
     \/ u.isSessionActive
     \/ /\ resp.status \in 200..299
        /\ resp.message = "success"
        /\ Truthy(resp.conversationId)]

\* the handler returns its response; the page that awaits a session/create
\* goes on with it
Return(r) ==
  /\ req[r].pc = "done"
  /\ req' = [req EXCEPT ![r] = IdleReq]
  /\ ui' = IF req[r].kind = "create"
            THEN [ui EXCEPT ![r] = HandleStartSession(@, req[r].resp)]
            ELSE ui
  /\ UNCHANGED Streams
  /\ UNCHANGED <<token, tokenExpiresAt, continuationToken, budget, everSupplied>>
  /\ UNCHANGED Frame

\* messageType-specific checks of the message POST, lines 164-224; 0 when they pass
BodyReject(b) ==
  CASE b.messageType = "text" /\ b.msgLen = 0 -> 400
    [] b.messageType = "text" /\ b.msgLen > MaxMsgLen -> 400
    [] b.messageType = "choice" /\ ~b.optionIdentifier -> 400
    [] b.messageType = "choice" /\ ~b.inReplyToMessageId -> 400
    [] b.messageType = "form" /\ b.answers = 0 -> 400
    [] b.messageType = "form" /\ ~b.inReplyToMessageId -> 400
    [] OTHER -> 0

\* the checks before the try block of the message POST, lines 122-154
EarlyReject(b, ck) ==
  CASE ~b.parsed -> 400
    [] ~b.messageId -> 400
    [] CookieReject(ck, 400) # 0 -> CookieReject(ck, 400)
    [] b.messageType \notin {"text", "choice", "form"} -> 400
    [] OTHER -> 0

\* the message of each 400 of the message POST
RejectMessage(b, ck) ==
  CASE ~b.parsed -> "Invalid request body"
    [] ~b.messageId -> "Error: Message ID is required"
    [] ck.kind = "none" -> "Invalid Session. Start a new session."
    [] CookieReject(ck, 400) # 0 -> "Invalid session data. Start a new session."
    [] b.messageType \notin {"text", "choice", "form"} -> "Unsupported messageType"
    [] OTHER -> "Error: a field of the message is missing or too long"

\* POST of miaw/message/route.ts, lines 121-234
StartMessage(r) ==
  /\ CanStart(r)
  /\ budget' = budget - 1
  /\ \E ck \in Cookies(r), b \in MessageBodies :
       LET rq == [IdleReq EXCEPT !.kind = "message", !.cookie = ck,
                                 !.ctBefore = continuationToken]
           supplied == Truthy(ck.continuationToken)
           ct1 == SuppliedToken(ck, continuationToken)
           bad == [NoResp EXCEPT !.status = 400, !.action = "rejected",
                                 !.message = RejectMessage(b, ck)]
       IN IF EarlyReject(b, ck) # 0
            THEN /\ req' = [req EXCEPT ![r] = Respond(rq, bad, continuationToken)]
                 /\ UNCHANGED <<continuationToken, everSupplied>>
            ELSE IF BodyReject(b) # 0
              THEN /\ continuationToken' = ct1
                   /\ everSupplied' = (everSupplied \/ supplied)
                   /\ req' = [req EXCEPT ![r] =
                        Respond(IF supplied THEN Logged(rq, "setCT", ct1) ELSE rq, bad, ct1)]
              ELSE Enter(r, rq, ck)
  /\ UNCHANGED <<token, tokenExpiresAt>>
  /\ UNCHANGED Frame
  /\ UNCHANGED Aside

\* sendMessage resumes with the vendor's answer, lines 986-991; the POST ends
MsgOutcomes == {"ok", "error"}
MsgResp(r) ==
  /\ Waiting(r, "opWait")
  /\ req[r].kind = "message"
  /\ \E out \in MsgOutcomes :
       req' = [req EXCEPT ![r] =
         IF out = "ok"
           THEN Respond(@, [NoResp EXCEPT !.status = 200, !.action = "sent"], continuationToken)
           ELSE Failed(@, TRUE, "none", continuationToken)]
  /\ UNCHANGED <<token, tokenExpiresAt, continuationToken, budget, everSupplied>>
  /\ UNCHANGED Frame
  /\ UNCHANGED Aside

\* POST of part_003, lines 11-42, into createConversation, line 926
CreateInputs ==
  {[job |-> j, terms |-> t] : j \in {"", "J1"}, t \in {"true", "false", "string:true", "undefined"}}
TermsAgreedTruthy(t) == t \in {"true", "string:true"}
\* body.termsAndConditionAgreed === true, part_003 line 14
TermsAgreed(t) == t = "true"
StartCreate(r) ==
  /\ CanStart(r)
  /\ budget' = budget - 1
  /\ \E in \in CreateInputs :
       LET rq == [IdleReq EXCEPT !.kind = "create", !.ctBefore = continuationToken,
                                 !.input = in,
                                 !.fresh = ~everCreated /\ ~everSupplied]
       IN req' = [req EXCEPT ![r] =
            IF in.job = "" \/ ~TermsAgreed(in.terms)
              THEN Respond(rq, [NoResp EXCEPT !.status = 400, !.action = "rejected",
                                  !.message = IF in.job = ""
                                    THEN "Job application number is required"
                                    ELSE "Terms and conditions must be accepted"],
                           continuationToken)
              ELSE EnsureEntry(rq, continuationToken, token, tokenExpiresAt, now)]
  /\ ui' = [ui EXCEPT ![r].isCreatingSession = TRUE]
  /\ UNCHANGED Streams
  /\ UNCHANGED <<token, tokenExpiresAt, continuationToken, everSupplied>>
  /\ UNCHANGED Frame

\* subscribeEvents resumes with the vendor's answer, line 1030; createConversation
\* goes on to its own headers, line 943
SseOutcomes == {"ok", "error"}
SseResp(r) ==
  /\ Waiting(r, "opWait")
  /\ req[r].kind = "create"
  /\ \E out \in SseOutcomes :
       req' = [req EXCEPT ![r] =
         IF out = "ok"
           THEN GetTokenEntry(Push(Logged(@, "sseOpen", ""), "conv"), FALSE,
                              token, tokenExpiresAt, now)
           ELSE Failed(@, TRUE, "none", continuationToken)]
  /\ UNCHANGED <<token, tokenExpiresAt, continuationToken, budget, everSupplied>>
  /\ UNCHANGED Frame
  /\ UNCHANGED Aside

\* GET of miaw/message/route.ts (the events route), lines 267-302: the cookie
\* checks, then subscribeEvents; the cookie's token is not installed
StartEvents(r) ==
  /\ CanStart(r)
  /\ budget' = budget - 1
  /\ \E ck \in Cookies(r) :
       LET rq == [IdleReq EXCEPT !.kind = "events", !.cookie = ck,
                                 !.ctBefore = continuationToken]
           rej == CookieReject(ck, 400)
       IN req' = [req EXCEPT ![r] =
            IF rej # 0
              THEN Respond(rq, [NoResp EXCEPT !.status = rej, !.action = "rejected"],
                           continuationToken)
              ELSE EnsureEntry(rq, continuationToken, token, tokenExpiresAt, now)]
  /\ UNCHANGED <<token, tokenExpiresAt, continuationToken, everSupplied>>
  /\ UNCHANGED Frame
  /\ UNCHANGED Aside

\* subscribeEvents resumes with the vendor's answer, line 1030, and the GET
\* returns the stream, lines 302-316
EventsResp(r) ==
  /\ Waiting(r, "opWait")
  /\ req[r].kind = "events"
  /\ \E out \in SseOutcomes :
       req' = [req EXCEPT ![r] =
         IF out = "ok"
           THEN Respond(Logged(@, "sseOpen", ""),
                        [NoResp EXCEPT !.status = 200, !.action = "stream"], continuationToken)
           ELSE Failed(@, TRUE, "none", continuationToken)]
  /\ UNCHANGED <<token, tokenExpiresAt, continuationToken, budget, everSupplied>>
  /\ UNCHANGED Frame
  /\ UNCHANGED Aside

\* the bodies of an acknowledgment POST
AckBodies ==
  {[messageId |-> m, conversationEntryId |-> m, acknowledgmentType |-> t] :
      m \in {"m1", Undefined}, t \in {"Delivery", "Read", "Seen", Undefined}}

\* POST of agent/miaw/acknowledgment/route.ts, lines 10-62
StartAck(r) ==
  /\ CanStart(r)
  /\ budget' = budget - 1
  /\ \E ck \in Cookies(r), b \in AckBodies :
       LET rq == [IdleReq EXCEPT !.kind = "ack", !.cookie = ck, !.ack = b,
                                 !.ctBefore = continuationToken]
           bad == [NoResp EXCEPT !.status = 400, !.action = "rejected"]
       IN IF b.acknowledgmentType \notin {"Delivery", "Read"} \/ CookieReject(ck, 400) # 0
            THEN /\ req' = [req EXCEPT ![r] = Respond(rq, bad, continuationToken)]
                 /\ UNCHANGED <<continuationToken, everSupplied>>
            ELSE Enter(r, rq, ck)
  /\ UNCHANGED <<token, tokenExpiresAt>>
  /\ UNCHANGED Frame
  /\ UNCHANGED Aside

\* POST of the read-acknowledgment route, typing/started/route.ts lines 85-142
StartReadAck(r) ==
  /\ CanStart(r)
  /\ budget' = budget - 1
  /\ \E ck \in Cookies(r), b \in AckBodies :
       LET rq == [IdleReq EXCEPT !.kind = "readAck", !.cookie = ck,
                                 !.ack = [b EXCEPT !.acknowledgmentType = "Read"],
                                 !.ctBefore = continuationToken]
           supplied == Truthy(ck.continuationToken)
           ct1 == SuppliedToken(ck, continuationToken)
       IN IF ~Truthy(b.conversationEntryId) \/ CookieReject(ck, 400) # 0
            THEN /\ req' = [req EXCEPT ![r] =
                      Respond(rq, [NoResp EXCEPT !.status = 400, !.action = "rejected"],
                              continuationToken)]
                 /\ UNCHANGED <<continuationToken, everSupplied>>
            ELSE IF ~Truthy(ct1)
              \* hasActiveSession() is false, lines 134-139
              THEN /\ req' = [req EXCEPT ![r] =
                        Respond(rq, [NoResp EXCEPT !.status = 401, !.action = "rejected"],
                                continuationToken)]
                   /\ UNCHANGED <<continuationToken, everSupplied>>
              ELSE Enter(r, rq, ck)
  /\ UNCHANGED <<token, tokenExpiresAt>>
  /\ UNCHANGED Frame
  /\ UNCHANGED Aside

\* sendAcknowledgment resumes with the vendor's answer, lines 1009-1013; the
\* POST answers
AckResp(r) ==
  /\ Waiting(r, "opWait")
  /\ req[r].kind \in {"ack", "readAck"}
  /\ \E out \in MsgOutcomes :
       req' = [req EXCEPT ![r] =
         IF out = "ok"
           THEN Respond(@, [NoResp EXCEPT !.status = 200, !.action = "acked"], continuationToken)
           ELSE Failed(@, TRUE, "none", continuationToken)]
  /\ UNCHANGED <<token, tokenExpiresAt, continuationToken, budget, everSupplied>>
  /\ UNCHANGED Frame
  /\ UNCHANGED Aside

\* createConversation resumes with the vendor's answer, lines 944-947
ConvOutcomes == {201, 200, 0}
ConvResp(r) ==
  /\ Waiting(r, "convWait")
  /\ \E out \in ConvOutcomes :
       IF out = 0
         THEN /\ req' = [req EXCEPT ![r] = Failed(@, TRUE, "none", continuationToken)]
              /\ UNCHANGED everCreated
         ELSE /\ everCreated' = TRUE
              /\ req' = [req EXCEPT ![r] =
                   GctEntry(Push([Logged(@, "convCreated", "") EXCEPT !.http = out], "create"),
                            token, tokenExpiresAt, now)]
  /\ UNCHANGED <<token, tokenExpiresAt, continuationToken, budget, everSupplied,
                 now, closedConvs, tokenIssuedAt>>
  /\ UNCHANGED Aside

\* a direct caller of getToken(forceRefresh), lines 786-804
StartGetToken(r) ==
  /\ CanStart(r)
  /\ budget' = budget - 1
  /\ \E f \in BOOLEAN :
       LET rq == [IdleReq EXCEPT !.kind = "getToken", !.force = f,
                    !.snap = [tok |-> token, issuedAt |-> tokenIssuedAt, at |-> now]]
       IN req' = [req EXCEPT ![r] =
            GetTokenEntry(Push(rq, "getToken"), f, token, tokenExpiresAt, now)]
  /\ UNCHANGED <<token, tokenExpiresAt, continuationToken, everSupplied>>
  /\ UNCHANGED Frame
  /\ UNCHANGED Aside

\* time passes
Tick ==
  /\ Quiet
  /\ \E d \in TickSteps : now + d <= MaxNow /\ now' = now + d
  /\ UNCHANGED <<token, tokenExpiresAt, continuationToken, req, budget, closedConvs,
                 everCreated, everSupplied, tokenIssuedAt>>
  /\ UNCHANGED Aside

\* the upstream delivers the next chunk, of any size
RelayData ==
  /\ relay.mode # "off"
  /\ relay.upstream = "open"
  /\ \E k \in 1..Len(relay.up) :
       LET rl == [relay EXCEPT !.up = SubSeq(@, k + 1, Len(@))]
           chunk == SubSeq(relay.up, 1, k)
       IN relay' = IF relay.mode = "relay" THEN OnData(rl, chunk) ELSE OnRead(rl, chunk)
  /\ UNCHANGED <<token, tokenExpiresAt, continuationToken, req, budget, everSupplied, ui, page, batch>>
  /\ UNCHANGED Frame

\* the upstream ends after its last chunk
RelayEnd ==
  /\ relay.mode # "off"
  /\ relay.upstream = "open"
  /\ relay.up = <<>>
  /\ relay' = OnEnd(relay)
  /\ UNCHANGED <<token, tokenExpiresAt, continuationToken, req, budget, everSupplied, ui, page, batch>>
  /\ UNCHANGED Frame

\* the upstream fails; what it had not delivered is lost
RelayError ==
  /\ relay.mode # "off"
  /\ relay.upstream = "open"
  /\ relay' = OnError(relay)
  /\ UNCHANGED <<token, tokenExpiresAt, continuationToken, req, budget, everSupplied, ui, page, batch>>
  /\ UNCHANGED Frame

(* ----------------------------- the chat page --------------------------- *)
(* One page (part_000, the chat component) with the server as its          *)
(* environment: the replies to its fetches and the events on its streams   *)
(* are inputs.  ui[1] holds its isCreatingSession and isSessionActive.     *)
MsgIds == {"m1", "m2"}
Sessions == 1..MaxSessions

\* setupEventSource has not run for this session
IdleConn == [state |-> "idle", lost |-> "none", isSessionActive |-> FALSE,
             reconnected |-> FALSE]
\* the page as mounted, part_000 lines 960-990.  sessionNo counts the sessions
\* started and last is the latest event processed, with the outcome of
\* handleIncomingMessage and whether a duplicate came over a connection that
\* had reconnected: both are history, the code keeps neither
IdlePage == [processedMessageIds |-> {}, messages |-> <<>>,
             conn |-> [s \in Sessions |-> IdleConn], sessionNo |-> 0,
             closeTimer |-> FALSE, events |-> 0,
             isClosingSession |-> FALSE, agentTyping |-> FALSE,
             last |-> [type |-> "none", outcome |-> "none", reconnected |-> FALSE]]

\* the replies session/create can give to the page's fetch
CreateReplies ==
  {[NoResp EXCEPT !.status = 200, !.message = "success", !.conversationId = NewConv],
   [NoResp EXCEPT !.status = 200, !.conversationId = NewConv],
   [NoResp EXCEPT !.status = 500, !.message = "Session creation failed"]}

\* the message events a stream can carry: a CONVERSATION_MESSAGE with or
\* without an id, from the bot or echoing the end user, with or without content
StreamEvents ==
  {[type |-> "CONVERSATION_MESSAGE", id |-> i, sender |-> s, content |-> c,
    data |-> "json", op |-> Undefined] :
      i \in MsgIds \cup {Undefined}, s \in {"Chatbot", "EndUser"}, c \in BOOLEAN}

\* the other events a stream can carry: typing indicators, pings, the vendor's
\* close event and participant changes, each with a data line that is JSON
\* ("json") or is not ("text")
ControlEvents ==
  {[type |-> t, id |-> Undefined, sender |-> Undefined, content |-> FALSE,
    data |-> d, op |-> Undefined] :
      t \in {"CONVERSATION_TYPING_STARTED_INDICATOR", "CONVERSATION_TYPING_STOPPED_INDICATOR",
             "ping", "CONVERSATION_CLOSE_CONVERSATION"},
      d \in {"json", "text"}}
  \cup {[type |-> "CONVERSATION_PARTICIPANT_CHANGED", id |-> Undefined,
         sender |-> Undefined, content |-> FALSE, data |-> "json", op |-> o] :
            o \in {"remove", "add"}}

\* a step of a conversations POST touches nothing else
BatchKeeps ==
  /\ UNCHANGED <<token, tokenExpiresAt, continuationToken, req, budget, everSupplied,
                 ui, relay, page>>
  /\ UNCHANGED Frame

\* the dedupe test left out: every message counts as new
NeverProcessed(ids, id) == FALSE
\* processedMessageIds.current.has(messageId)
AlreadyProcessed(ids, id) == id \in ids

\* handleIncomingMessage for an event read from a connection that has
\* (or has not) been through a reconnect
HandleIncomingMessage(pg, ev, again) ==
  LET out(o) == [type |-> ev.type, outcome |-> o,
                 reconnected |-> again /\ o = "duplicate"] IN
  IF ~Truthy(ev.id) \/ ev.sender = "EndUser"
  THEN [pg EXCEPT !.last = out("handled")]
  ELSE IF AlreadyProcessed(pg.processedMessageIds, ev.id)
  THEN [pg EXCEPT !.last = out("duplicate")]
  ELSE IF ~ev.content
  THEN [pg EXCEPT !.processedMessageIds = @ \cup {ev.id}, !.last = out("handled")]
  ELSE [pg EXCEPT !.processedMessageIds = @ \cup {ev.id},
                  !.messages = Append(@, [messageId |-> ev.id, session |-> pg.sessionNo]),
                  !.last = out("handled")]

\* handleCloseSession up to its fetch of session/delete
HandleCloseSession(pg) == [pg EXCEPT !.isClosingSession = TRUE]

\* handleParticipantChange: the removal of a participant closes the session
HandleParticipantChange(pg, ev) ==
  IF ev.op = "remove" THEN HandleCloseSession(pg) ELSE pg

\* handleMiawEvent, reached for every event but typing indicators and pings;
\* its case for CONVERSATION_CLOSE_CONVERSATION is commented out
HandleMiawEvent(pg, ev, again) ==
  CASE ev.type = "CONVERSATION_MESSAGE" -> HandleIncomingMessage(pg, ev, again)
    [] ev.type = "CONVERSATION_PARTICIPANT_CHANGED" -> HandleParticipantChange(pg, ev)
    [] OTHER -> pg

\* the body of the read loop for one parsed event, lines 1081-1119: the data
\* line is parsed first, and a parse error skips the event
ProcessEvent(pg, ev, again) ==
  LET seen == [pg EXCEPT !.last = [type |-> ev.type, outcome |-> "none",
                                   reconnected |-> FALSE]]
  IN CASE ev.data = "text" -> seen
       [] ev.type = "CONVERSATION_TYPING_STARTED_INDICATOR" ->
            [seen EXCEPT !.agentTyping = TRUE]
       [] ev.type = "CONVERSATION_TYPING_STOPPED_INDICATOR" ->
            [seen EXCEPT !.agentTyping = FALSE]
       [] ev.type = "ping" -> seen
       [] OTHER -> HandleMiawEvent(seen, ev, again)

\* the user presses Start: handleStartSession up to its fetch
PageStartSession ==
  /\ ~ui[1].isSessionActive
  /\ ~ui[1].isCreatingSession
  /\ page.sessionNo < MaxSessions
  /\ ui' = [ui EXCEPT ![1].isCreatingSession = TRUE]
  /\ UNCHANGED <<token, tokenExpiresAt, continuationToken, req, budget, everSupplied,
                 relay, page, batch>>
  /\ UNCHANGED Frame

\* session/create answers; on success the dedupe set is cleared, the session
\* becomes active and the effect of lines 1010-1018 calls setupEventSource
PageCreateReply ==
  /\ ui[1].isCreatingSession
  /\ \E resp \in CreateReplies :
       LET u == HandleStartSession(ui[1], resp)
           n == page.sessionNo + 1
       IN /\ ui' = [ui EXCEPT ![1] = u]
          /\ page' = IF u.isSessionActive
                      THEN [page EXCEPT !.processedMessageIds = {},
                                        !.sessionNo = n,
                                        !.conn[n] = [state |-> "connecting", lost |-> "none",
                                                     isSessionActive |-> TRUE,
                                                     reconnected |-> FALSE]]
                      ELSE page
  /\ UNCHANGED <<token, tokenExpiresAt, continuationToken, req, budget, everSupplied, relay, batch>>
  /\ UNCHANGED Frame

PageKeeps ==
  /\ UNCHANGED <<token, tokenExpiresAt, continuationToken, req, budget, everSupplied,
                 ui, relay, batch>>
  /\ UNCHANGED Frame

\* fetch("/api/miaw/events") resolves with a body: the read loop starts
PageFetchOk(s) ==
  /\ page.conn[s].state = "connecting"
  /\ page' = [page EXCEPT !.conn[s].state = "streaming", !.conn[s].lost = "none"]
  /\ PageKeeps

\* the fetch rejects, or answers without ok or without a body: the outer catch
\* sets the 5 second timer
PageFetchFails(s) ==
  /\ page.conn[s].state = "connecting"
  /\ page' = [page EXCEPT !.conn[s].state = "waiting", !.conn[s].lost = "fetch"]
  /\ PageKeeps

\* reader.read() yields a chunk holding one event
PageRead(s) ==
  /\ page.conn[s].state = "streaming"
  /\ page.events < MaxEvents
  /\ \E ev \in StreamEvents :
       page' = [ProcessEvent(page, ev, page.conn[s].reconnected)
                  EXCEPT !.events = @ + 1]
  /\ PageKeeps

\* reader.read() yields a chunk holding one event that is not a message
PageControlRead(s) ==
  /\ page.conn[s].state = "streaming"
  /\ page.events < MaxEvents
  /\ \E ev \in ControlEvents :
       page' = [ProcessEvent(page, ev, page.conn[s].reconnected)
                  EXCEPT !.events = @ + 1]
  /\ PageKeeps

\* reader.read() throws: the inner catch sets the 5 second timer
PageReadThrows(s) ==
  /\ page.conn[s].state = "streaming"
  /\ page' = [page EXCEPT !.conn[s].state = "waiting", !.conn[s].lost = "read"]
  /\ PageKeeps

\* reader.read() reports done: the loop breaks and sets no timer
PageReadDone(s) ==
  /\ page.conn[s].state = "streaming"
  /\ page' = [page EXCEPT !.conn[s].state = "ended", !.conn[s].lost = "end"]
  /\ PageKeeps

\* the 5 second timer fires: setupEventSource again if the isSessionActive
\* its closure captured is true
PageTimer(s) ==
  /\ page.conn[s].state = "waiting"
  /\ page' = IF page.conn[s].isSessionActive
              THEN [page EXCEPT !.conn[s].state = "connecting",
                                !.conn[s].reconnected = TRUE]
              ELSE [page EXCEPT !.conn[s].state = "ended"]
  /\ PageKeeps

\* the user picks End Conversation: handleCloseSession up to its fetch
PageCloseSession ==
  /\ ui[1].isSessionActive
  /\ ~page.isClosingSession
  /\ page' = HandleCloseSession(page)
  /\ PageKeeps

\* session/delete answers: on 200 the 1.5 second timer is set, on anything
\* else a toast is shown
PageCloseReply ==
  /\ page.isClosingSession
  /\ \E status \in {200, 400, 500} :
       page' = [page EXCEPT !.isClosingSession = FALSE,
                            !.closeTimer = @ \/ status = 200]
  /\ PageKeeps

\* the 1.5 second timer fires: the chat is reset.  cleanupEventSource finds
\* eventSourceRef.current null and leaves the readers alone
PageCloseTimer ==
  /\ page.closeTimer
  /\ page' = [page EXCEPT !.closeTimer = FALSE, !.messages = <<>>,
                          !.processedMessageIds = {}]
  /\ ui' = [ui EXCEPT ![1].isSessionActive = FALSE]
  /\ UNCHANGED <<token, tokenExpiresAt, continuationToken, req, budget, everSupplied, relay, batch>>
  /\ UNCHANGED Frame

(* ------------------------ the conversations POST ----------------------- *)
ConvIds == {"a", "b"}
\* the lists of conversation ids a request can carry, the empty one included
IdLists == UNION {[1..n -> ConvIds] : n \in 0..MaxIds}

\* no request yet
IdleBatch == [pc |-> "idle", ids |-> <<>>, includeEntries |-> TRUE, cookie |-> "none",
              results |-> <<>>, status |-> 0, conversations |-> <<>>,
              successful |-> 0, failed |-> 0, errors |-> <<>>]

RECURSIVE Select(_, _, _)
\* results.filter(status === which), as the ids of those results, in order
Select(ids, results, which) ==
  IF ids = <<>> THEN <<>>
  ELSE (IF results[1] = which THEN <<ids[1]>> ELSE <<>>)
       \o Select(Tail(ids), Tail(results), which)

\* the errors list naming each rejected result's own conversation
ErrorsByOwnId(ids, results) == Select(ids, results, "rejected")
\* failedResults, part_004 lines 314-319: the index the map callback gets is
\* the position in the filtered array, and conversationIds is read at it
FailedResults(ids, results) ==
  [k \in 1..Len(Select(ids, results, "rejected")) |-> ids[k]]

\* POST of part_004, lines 238-281: the checks, then one fetch per id
BatchStart ==
  /\ batch.pc = "idle"
  /\ \E l \in IdLists, inc \in BOOLEAN, ck \in {"none", "garbage", "json"} :
       batch' = IF l = <<>> \/ ck # "json"
                  THEN [batch EXCEPT !.pc = "done", !.ids = l, !.includeEntries = inc,
                                     !.cookie = ck, !.status = 400]
                  ELSE [batch EXCEPT !.pc = "fetching", !.ids = l, !.includeEntries = inc,
                                     !.cookie = ck,
                                     !.results = [i \in 1..Len(l) |->
                                        IF inc THEN "pending" ELSE "fulfilled"]]
  /\ BatchKeeps

\* listConversationEntries settles for one id, lines 284-305
BatchSettle ==
  /\ batch.pc = "fetching"
  /\ \E i \in 1..Len(batch.ids), out \in {"fulfilled", "rejected"} :
       /\ batch.results[i] = "pending"
       /\ batch' = [batch EXCEPT !.results[i] = out]
  /\ BatchKeeps

\* Promise.allSettled resolves and the response is built, lines 308-329
BatchRespond ==
  /\ batch.pc = "fetching"
  /\ \A i \in 1..Len(batch.ids) : batch.results[i] # "pending"
  /\ LET ok == Select(batch.ids, batch.results, "fulfilled")
         bad == FailedResults(batch.ids, batch.results)
     IN batch' = [batch EXCEPT !.pc = "done", !.status = 200, !.conversations = ok,
                               !.successful = Len(ok), !.failed = Len(bad),
                               !.errors = bad]
  /\ BatchKeeps

InitState(n) ==
  /\ budget = n
  /\ token = Null
  /\ tokenExpiresAt = NoExpiry
  /\ continuationToken = Null
  /\ now = 0
  /\ req = [r \in Req |-> IdleReq]
  /\ closedConvs = {}
  /\ everCreated = FALSE
  /\ everSupplied = FALSE
  /\ tokenIssuedAt = 0
  /\ ui = [r \in Req |-> IdleUi]

InitWith(n) ==
  InitState(n) /\ relay = IdleRelay /\ page = IdlePage /\ batch = IdleBatch

Init == InitWith(MaxStarts)
InitMixed == InitWith(MaxMixedStarts)
InitCreate == InitWith(MaxCreateStarts)
InitToken == InitWith(MaxTokenCalls)
\* one event stream and no request
InitRelay ==
  /\ InitState(0)
  /\ page = IdlePage
  /\ batch = IdleBatch
  /\ relay \in {RelayStart(m, fs, p) : m \in {"relay", "browser"}, fs \in FrameSeqs, p \in Partials}

\* the steps of the call chain every operation shares
Chain ==
  \/ \E r \in Req : TokenResp(r)
  \/ \E r \in Req : CtResp(r)
  \/ \E r \in Req : Return(r)
  \/ ClearToken

\* the session/delete handler of route.ts
Next ==
  \/ \E r \in Req : StartDelete(r)
  \/ \E r \in Req : CloseResp(r)
  \/ Chain

\* both session/delete handlers and the message handler
NextMixed ==
  \/ \E r \in Req : StartDelete(r)
  \/ \E r \in Req : StartDeleteV1(r)
  \/ \E r \in Req : StartMessage(r)
  \/ \E r \in Req : CloseResp(r)
  \/ \E r \in Req : MsgResp(r)
  \/ \E r \in Req : StartEvents(r)
  \/ \E r \in Req : EventsResp(r)
  \/ Chain

\* session/create
NextCreate ==
  \/ \E r \in Req : StartCreate(r)
  \/ \E r \in Req : SseResp(r)
  \/ \E r \in Req : ConvResp(r)
  \/ Chain

\* getToken alone, with time passing
NextToken ==
  \/ \E r \in Req : StartGetToken(r)
  \/ \E r \in Req : TokenResp(r)
  \/ \E r \in Req : Return(r)
  \/ ClearToken
  \/ Tick

\* the event relay alone
NextRelay ==
  \/ RelayData
  \/ RelayEnd
  \/ RelayError

InitAck == InitWith(MaxAckStarts)

\* the two acknowledgment routes
NextAck ==
  \/ \E r \in Req : StartAck(r)
  \/ \E r \in Req : StartReadAck(r)
  \/ \E r \in Req : AckResp(r)
  \/ Chain

\* one chat page alone
InitPage == InitWith(0)

\* one conversations POST alone
InitBatch == InitWith(0)

NextBatch ==
  \/ BatchStart
  \/ BatchSettle
  \/ BatchRespond

NextPage ==
  \/ PageStartSession
  \/ PageCreateReply
  \/ \E s \in Sessions : PageFetchOk(s)
  \/ \E s \in Sessions : PageFetchFails(s)
  \/ \E s \in Sessions : PageRead(s)
  \/ \E s \in Sessions : PageReadThrows(s)
  \/ \E s \in Sessions : PageReadDone(s)
  \/ \E s \in Sessions : PageTimer(s)
  \/ PageCloseSession
  \/ PageCloseReply
  \/ PageCloseTimer

\* the same page on a stream that carries the events that are not messages
NextPageControl ==
  \/ PageStartSession
  \/ PageCreateReply
  \/ \E s \in Sessions : PageFetchOk(s)
  \/ \E s \in Sessions : PageFetchFails(s)
  \/ \E s \in Sessions : PageControlRead(s)
  \/ \E s \in Sessions : PageReadThrows(s)
  \/ \E s \in Sessions : PageReadDone(s)
  \/ \E s \in Sessions : PageTimer(s)
  \/ PageCloseSession
  \/ PageCloseReply
  \/ PageCloseTimer

\* a timer that was set fires, and a fetch that was sent settles
PageFairness ==
  /\ \A s \in Sessions : WF_vars(PageTimer(s))
  /\ \A s \in Sessions : WF_vars(PageFetchOk(s) \/ PageFetchFails(s))
  /\ WF_vars(PageCloseTimer)
  /\ WF_vars(PageCreateReply)
  /\ WF_vars(PageCloseReply)

Spec == Init /\ [][Next]_vars
SpecRelay == InitRelay /\ [][NextRelay]_vars
SpecMixed == InitMixed /\ [][NextMixed]_vars
SpecCreate == InitCreate /\ [][NextCreate]_vars
SpecToken == InitToken /\ [][NextToken]_vars
SpecAck == InitAck /\ [][NextAck]_vars
SpecBatch == InitBatch /\ [][NextBatch]_vars
SpecPage == InitPage /\ [][NextPage]_vars
SpecPageFair == SpecPage /\ PageFairness
SpecPageControl == InitPage /\ [][NextPageControl]_vars

(* ============================ properties ============================== *)
ResultOf(rq) == rq.log[IndexOf(rq, "closeResult")].a
Before(rq, e1, e2) == IndexOf(rq, e1) < IndexOf(rq, e2)
Done(rq, kind) == rq.kind = kind /\ rq.pc = "done"
EnteredTry(rq) == rq.resp.action # "rejected"

\* C1: the DELETE handler of route.ts clears the Manager's continuation token
\* only after the vendor close call returned success, deletes the cookie only
\* after it returned success or 404, and clears the token before it deletes the
\* cookie; neither happens while the call is pending or after another failure.
C1_CloseOrder ==
  \A r \in Req :
    LET rq == req[r] IN
    rq.kind = "delete" =>
      /\ Has(rq, "clearCT") =>
           /\ Has(rq, "closeResult")
           /\ ResultOf(rq) = "200"
           /\ Before(rq, "closeResult", "clearCT")
      /\ Has(rq, "delCookie") =>
           /\ Has(rq, "closeResult")
           /\ ResultOf(rq) \in {"200", "404"}
           /\ Before(rq, "closeResult", "delCookie")
           /\ ResultOf(rq) = "200" =>
                /\ Has(rq, "clearCT")
                /\ Before(rq, "clearCT", "delCookie")
                /\ ~Truthy(rq.resp.ct)
      /\ (rq.pc = "done" /\ rq.resp.cookie = "deleted") => Has(rq, "delCookie")

C1_Witness ==
  \E r \in Req :
    /\ Done(req[r], "delete")
    /\ Has(req[r], "clearCT")
    /\ Has(req[r], "delCookie")
    /\ Has(req[r], "setCT")

\* C2: in every session/delete handler, a vendor close that fails with 500 ends
\* in a retryable error, with the cookie kept and the Manager's continuation
\* token equal to its value before the request started.
C2_Close500KeepsState ==
  \A r \in Req :
    LET rq == req[r] IN
    (rq.kind \in {"delete", "deleteV1"} /\ rq.pc = "done"
       /\ Has(rq, "closeResult") /\ ResultOf(rq) = "500") =>
      /\ rq.resp.retryable = "true"
      /\ rq.resp.status >= 400
      /\ rq.resp.cookie = "kept"
      /\ rq.resp.ct = rq.ctBefore

\* C3: a vendor close that fails with 404 ends in success, with the cookie
\* deleted and the Manager's continuation token cleared.
C3_Close404Cleans ==
  \A r \in Req :
    LET rq == req[r] IN
    (Done(rq, "delete") /\ Has(rq, "closeResult") /\ ResultOf(rq) = "404") =>
      /\ rq.resp.status = 200
      /\ rq.resp.cookie = "deleted"
      /\ ~Truthy(rq.resp.ct)

\* C4: a failed close that is not a 404 is reported non-retryable exactly when
\* the vendor close call failed with 403, retryable otherwise (also when no
\* continuation token could be obtained and no close call was made), and the
\* cookie is kept in both cases.
ClosedOr404(rq) == Has(rq, "closeResult") /\ ResultOf(rq) \in {"200", "404"}
C4_Retryable ==
  \A r \in Req :
    LET rq == req[r] IN
    (Done(rq, "delete") /\ EnteredTry(rq) /\ ~ClosedOr404(rq)) =>
      /\ rq.resp.action = "close_failed"
      /\ rq.resp.status >= 400
      /\ rq.resp.retryable \in {"true", "false"}
      /\ rq.resp.retryable = "false" <=> (Has(rq, "closeResult") /\ ResultOf(rq) = "403")
      /\ rq.resp.cookie = "kept"
      /\ ~Has(rq, "delCookie")

C4_Witness ==
  \E r \in Req :
    /\ Done(req[r], "delete")
    /\ Has(req[r], "closeResult")
    /\ ResultOf(req[r]) = "403"
    /\ req[r].resp.retryable = "false"

\* C5: once the vendor has confirmed the closure of a conversation, no vendor
\* call made through the Manager carries that conversation's continuation token.
C5_NoStaleToken == \A r \in Req : ~Has(req[r], "stale")

\* C6: every message-send call of sendMessage carries a continuation token,
\* never the access token.
C6_MessageNeedsContinuation ==
  \A r \in Req :
    \A i \in 1..Len(req[r].log) :
      req[r].log[i].e = "call:msg" =>
        /\ req[r].log[i].a \in ContTokens
        /\ req[r].log[i].a \notin AccessTokens

C6_Witness ==
  \E r \in Req :
    /\ req[r].kind = "message"
    /\ Has(req[r], "storeCT")
    /\ Has(req[r], "call:msg")

\* C7: the message-send call of a POST whose cookie carries continuation token
\* T is authorized with T.
C7_MessageUsesOwnToken ==
  \A r \in Req :
    LET rq == req[r] IN
    (rq.kind = "message" /\ Truthy(rq.cookie.continuationToken)) =>
      \A i \in 1..Len(rq.log) :
        rq.log[i].e = "call:msg" => rq.log[i].a = rq.cookie.continuationToken

\* the message is sent while a request of the other session is in flight, which
\* has put its own token into the Manager
C7_Witness ==
  \E r, q \in Req :
    /\ req[r].kind = "message"
    /\ Has(req[r], "call:msg")
    /\ Has(req[r], "setCT")
    /\ q # r
    /\ req[q].pc = "opWait"
    /\ Has(req[q], "setCT")
    /\ req[q].log[IndexOf(req[q], "setCT")].a # req[r].cookie.continuationToken

\* C8: getToken calls the vendor exactly when forceRefresh is set, or no token
\* is cached, or the time is not earlier than issue + 60 - 5 minutes; otherwise
\* it returns the cached token; a new token it returns is the one it stored.
C8_RefreshIff ==
  \A r \in Req :
    LET rq == req[r] IN
    (rq.kind = "getToken") =>
      /\ Has(rq, "call:token") <=>
           (rq.force \/ ~Truthy(rq.snap.tok) \/ rq.snap.at >= rq.snap.issuedAt + 60 - 5)
      /\ (rq.pc = "done" /\ ~Has(rq, "call:token")) =>
           (rq.resp.status = 200 /\ rq.resp.action = rq.snap.tok)
      /\ (rq.pc = "done" /\ rq.resp.status = 200 /\ Has(rq, "call:token")) =>
           (Has(rq, "storeToken")
              /\ rq.log[IndexOf(rq, "storeToken")].a = rq.resp.action)

\* a second call inside the window, after time has passed, that made no vendor call
C8_Witness ==
  \E r \in Req :
    /\ Done(req[r], "getToken")
    /\ ~Has(req[r], "call:token")
    /\ req[r].snap.at > req[r].snap.issuedAt
    /\ budget = 0

\* C9: when the vendor's answer to the token call is an error or carries no
\* accessToken, getToken ends in an error and the step leaves the cached token
\* and expiry as they were.
TokenFailure(r) ==
  /\ req[r].pc = "tokWait"
  /\ Has(req'[r], "tokenResult")
  /\ req'[r].log[IndexOf(req'[r], "tokenResult")].a # "accessToken"
C9_FailureKeepsCache ==
  [][\A r \in Req :
       TokenFailure(r) =>
         /\ token' = token
         /\ tokenExpiresAt' = tokenExpiresAt
         /\ req'[r].pc = "done"
         /\ req'[r].resp.status = 500]_vars

C9_Witness ==
  \E r \in Req :
    /\ Done(req[r], "getToken")
    /\ req[r].resp.status = 500
    /\ Truthy(token)
    /\ tokenExpiresAt # NoExpiry

\* C10: ensureContinuationToken, invoked before any conversation was created
\* and before any continuation token was supplied, makes no vendor
\* continuation-token call and fails, so that the operation's own vendor call
\* is never made.
FirstCtCall(rq) ==
  /\ Has(rq, "call:ct")
  /\ Has(rq, "convCreated") => Before(rq, "call:ct", "convCreated")
C10_NoSessionNoCall ==
  \A r \in Req :
    req[r].fresh => (~FirstCtCall(req[r]) /\ ~Has(req[r], "call:sse")
                       /\ ~Has(req[r], "call:close") /\ ~Has(req[r], "call:msg"))

\* C11: a createConversation that succeeded made exactly one vendor
\* continuation-token call, and made it after the vendor conversation-create
\* call had succeeded.
CtCalls(rq) == {i \in 1..Len(rq.log) : rq.log[i].e = "call:ct"}
CreateSucceeded(rq) ==
  /\ rq.kind = "create"
  /\ rq.pc = "done"
  /\ Has(rq, "convCreated")
  /\ \E i \in 1..Len(rq.log) : rq.log[i].e = "storeCT" /\ i > IndexOf(rq, "convCreated")
C11_OneTokenPerConversation ==
  \A r \in Req :
    CreateSucceeded(req[r]) =>
      /\ Cardinality(CtCalls(req[r])) = 1
      /\ \A i \in CtCalls(req[r]) : i > IndexOf(req[r], "convCreated")

\* C12: when session/create has succeeded (conversation created, continuation
\* token issued, HTTP 200, cookie set), the page's
\* handleStartSession leaves isSessionActive true and isCreatingSession false.
CreateOk(rq) ==
  /\ rq.kind = "create"
  /\ rq.pc = "done"
  /\ rq.resp.status = 200
  /\ rq.resp.cookie = "set"
  /\ Has(rq, "convCreated")
  /\ Truthy(rq.resp.ct)
C12_CreateActivatesUi ==
  [][\A r \in Req :
       (CreateOk(req[r]) /\ req'[r].pc = "idle") =>
         (ui'[r].isSessionActive /\ ~ui'[r].isCreatingSession)]_vars

\* C13: the cookie a successful session/create sets holds a non-empty
\* conversationId and a non-empty continuationToken.
C13_CookieHasBoth ==
  \A r \in Req :
    (req[r].kind = "create" /\ req[r].pc = "done" /\ req[r].resp.cookie = "set"
       /\ Truthy(req[r].resp.ct)) =>
      /\ req[r].resp.setCookie.kind = "json"
      /\ Truthy(req[r].resp.setCookie.conversationId)
      /\ Truthy(req[r].resp.setCookie.continuationToken)

Delivered(rl) == rl.mode # "off" /\ rl.up = <<>> /\ rl.upstream # "errored"
C15_FramesForwarded ==
  Delivered(relay) =>
    /\ Len(relay.forwarded) = Len(relay.frames)
    /\ \A i \in 1..Len(relay.frames) : relay.forwarded[i] = Utf8(relay.frames[i])
    /\ relay.buffer = Utf8(relay.partial)

\* C16: the forwarded events and the final buffer are those of the run in
\* which the whole stream arrives as one chunk, wherever the chunk boundaries fall.
Unsplit(rl) ==
  LET start == RelayStart(rl.mode, rl.frames, rl.partial)
  IN IF rl.mode = "relay" THEN OnData(start, start.up) ELSE OnRead(start, start.up)
C16_ChunkingIrrelevant ==
  Delivered(relay) =>
    /\ relay.forwarded = Unsplit(relay).forwarded
    /\ relay.buffer = Unsplit(relay).buffer

\* C17: the sink is open while the upstream is open, closed without an error
\* once the upstream has ended, errored once the upstream has failed; after
\* either terminal event nothing more is forwarded and no new upstream is opened.
SinkMirrors(rl) ==
  /\ rl.upstream = "open" => rl.sink = "open"
  /\ rl.upstream = "ended" => rl.sink = "closed"
  /\ rl.upstream = "errored" => rl.sink = "errored"
C17_SinkMirrorsUpstream ==
  /\ [](relay.mode = "relay" => SinkMirrors(relay))
  /\ [][(relay.mode = "relay" /\ relay.upstream # "open") => relay' = relay]_vars

C17_Witness ==
  /\ relay.mode = "relay"
  /\ relay.upstream = "ended"
  /\ relay.sink = "closed"
  /\ Len(relay.forwarded) = 2
  /\ relay.chunks >= 2

\* C18: every upstream event connection the backend opens is opened by a
\* browser's events request, which is handed the stream.
C18_OneToOneStreams ==
  \A r \in Req :
    Has(req[r], "sseOpen") =>
      /\ req[r].kind = "events"
      /\ req[r].pc = "done" => req[r].resp.action = "stream"

(* ---------------------- the page's event stream ------------------------ *)
\* the connection of the current session is lost: its fetch failed, its read
\* threw or its stream ended, and the session is active
StreamLost(s) ==
  /\ ui[1].isSessionActive
  /\ s = page.sessionNo
  /\ page.conn[s].lost # "none"
  /\ page.conn[s].state \in {"waiting", "ended"}
\* a new connection attempt is under way, or the session is over
Connecting(s) == page.conn[s].state = "connecting" \/ ~ui[1].isSessionActive

\* C19: whenever the page's event stream is lost while the session is active,
\* by a failed connection attempt, a read that throws or a normal end of the
\* stream, the page eventually starts a new connection attempt (unless the
\* session is closed first), after every loss
C19_LossLeadsToReconnect ==
  \A s \in Sessions : [](StreamLost(s) => <>Connecting(s))

\* the same for the two losses that set the timer
LostToError(s) == StreamLost(s) /\ page.conn[s].lost \in {"fetch", "read"}
ErrorLeadsToReconnect ==
  \A s \in Sessions : [](LostToError(s) => <>Connecting(s))

\* the messages rendered since the current session started
Rendered(id) ==
  {i \in DOMAIN page.messages :
     /\ page.messages[i].messageId = id
     /\ page.messages[i].session = page.sessionNo}

NoDuplicateAtAll ==
  \A i, j \in DOMAIN page.messages :
     page.messages[i].messageId = page.messages[j].messageId => i = j

(* ------------------- events that are not messages ---------------------- *)
\* this step processed an event of type t
Processed(t) == page'.events = page.events + 1 /\ page'.last.type = t

\* C21: when the page receives CONVERSATION_CLOSE_CONVERSATION while its
\* session is active, it starts the close sequence, the DELETE of
\* session/delete
C21_CloseEventStartsClose ==
  [][Processed("CONVERSATION_CLOSE_CONVERSATION") /\ ui[1].isSessionActive
       => page'.isClosingSession]_vars

\* the connections of the page that have a reader or a reconnect timer
LiveConns == {s \in Sessions : page.conn[s].state \in {"connecting", "streaming", "waiting"}}

\* C25: at any time the page has at most one event-stream reader or pending
\* reconnect timer, through every sequence of session start, stream loss,
\* session close and new session: closing the session stops the reader
C25_SingleStream == Cardinality(LiveConns) <= 1

TypingEvents == {"CONVERSATION_TYPING_STARTED_INDICATOR", "CONVERSATION_TYPING_STOPPED_INDICATOR"}

\* C26: agentTyping is true exactly when the latest typing indicator received
\* was CONVERSATION_TYPING_STARTED_INDICATOR, whatever the data of the event:
\* a started indicator sets it, a stopped indicator resets it, and nothing
\* else, a ping included, changes it
C26_TypingFollowsIndicator ==
  [][/\ Processed("CONVERSATION_TYPING_STARTED_INDICATOR") => page'.agentTyping
     /\ Processed("CONVERSATION_TYPING_STOPPED_INDICATOR") => ~page'.agentTyping
     /\ page'.agentTyping # page.agentTyping => \E t \in TypingEvents : Processed(t)]_vars

\* the same for indicators whose data line is JSON or absent: only the data
\* that does not parse keeps an indicator from taking effect
TypingFollowsParsedIndicator ==
  [][/\ page'.agentTyping # page.agentTyping => \E t \in TypingEvents : Processed(t)
     /\ Processed("ping") => page'.agentTyping = page.agentTyping]_vars

(* --------------------------- acknowledgments --------------------------- *)
\* what request r logged under e, once
LoggedAs(rq, e) == rq.log[IndexOf(rq, e)].a
\* the number of entries e in the log of a request
Count(rq, e) == Cardinality({i \in 1..Len(rq.log) : rq.log[i].e = e})
\* the vendor message id the request names
SuppliedId(rq) == IF rq.kind = "ack" THEN rq.ack.messageId ELSE rq.ack.conversationEntryId

\* C22: every acknowledgment sent to the vendor names the vendor message id of
\* the browser's request and carries the acknowledgment type requested, and an
\* accepted request makes exactly one vendor acknowledgment call
C22_AckNamesMessage ==
  \A r \in Req :
     /\ (/\ req[r].kind \in {"ack", "readAck"}
         /\ Has(req[r], "call:ack")
         /\ Truthy(SuppliedId(req[r]))) =>
          /\ LoggedAs(req[r], "ack:messageId") = SuppliedId(req[r])
          /\ LoggedAs(req[r], "ack:entryType") = req[r].ack.acknowledgmentType
     /\ req[r].kind \in {"ack", "readAck"} /\ req[r].pc = "done" /\ req[r].resp.status = 200
          => Count(req[r], "call:ack") = 1

\* the part that holds: one vendor acknowledgment call per accepted request,
\* and the acknowledgment route passes the requested type on
OneAckCall ==
  \A r \in Req :
     /\ req[r].kind \in {"ack", "readAck"} /\ req[r].pc = "done" /\ req[r].resp.status = 200
          => Count(req[r], "call:ack") = 1
     /\ req[r].kind = "ack" /\ Has(req[r], "call:ack")
          => LoggedAs(req[r], "ack:entryType") = req[r].ack.acknowledgmentType

(* --------------------------- message requests -------------------------- *)
VendorCalls == {"call:token", "call:ct", "call:conv", "call:sse", "call:msg",
                "call:close", "call:ack"}
\* the request has made no vendor call
NoVendorCall(rq) == \A i \in 1..Len(rq.log) : rq.log[i].e \notin VendorCalls
SessionErrors == {"Invalid Session. Start a new session.",
                  "Invalid session data. Start a new session."}
\* the request failed a check that comes before the cookie is read
BodyErrors == {"Invalid request body", "Error: Message ID is required"}
\* the request failed a check of its body that comes after the cookie is read
FieldErrors == {"Unsupported messageType",
                "Error: a field of the message is missing or too long"}
\* the cookie is missing, is not JSON, or lacks the conversation id or the
\* continuation token
CookieIncomplete(ck) ==
  \/ ck.kind # "json"
  \/ ~Truthy(ck.conversationId)
  \/ ~Truthy(ck.continuationToken)

\* C23: a message request whose session cookie is missing, is not parseable,
\* lacks a conversationId or lacks a continuation token makes no vendor call
\* and is rejected, with the session error unless its body is at fault too
C23_IncompleteCookieRejected ==
  \A r \in Req :
     req[r].kind = "message" /\ CookieIncomplete(req[r].cookie) =>
       /\ NoVendorCall(req[r])
       /\ req[r].pc = "done"
       /\ req[r].resp.status = 400
       /\ req[r].resp.message \in SessionErrors \cup BodyErrors \cup FieldErrors

\* the same without the last case: the cookie is missing, is not JSON or
\* lacks the conversation id
CookieUnusable(ck) == ck.kind # "json" \/ ~Truthy(ck.conversationId)
UnusableCookieRejected ==
  \A r \in Req :
     req[r].kind = "message" /\ CookieUnusable(req[r].cookie) =>
       /\ NoVendorCall(req[r])
       /\ req[r].pc = "done"
       /\ req[r].resp.status = 400
       /\ req[r].resp.message \in SessionErrors \cup BodyErrors

\* C28: a message POST rejected with a 4xx makes no vendor call and leaves the
\* Manager's access token and continuation token as they were
C28_RejectedMessageChangesNothing ==
  [][\A r \in Req :
       (/\ req[r].pc = "idle"
        /\ req'[r].kind = "message"
        /\ req'[r].pc = "done"
        /\ req'[r].resp.status \in 400..499) =>
          /\ NoVendorCall(req'[r])
          /\ token' = token
          /\ continuationToken' = continuationToken]_vars

\* the rejections that come before the try block change nothing
EarlyRejectChangesNothing ==
  [][\A r \in Req :
       (/\ req[r].pc = "idle"
        /\ req'[r].kind = "message"
        /\ req'[r].pc = "done"
        /\ req'[r].resp.status \in 400..499) =>
          /\ NoVendorCall(req'[r])
          /\ token' = token
          /\ \/ continuationToken' = continuationToken
             \/ req'[r].resp.message = "Error: a field of the message is missing or too long"]_vars

(* ------------------------------ clearToken ----------------------------- *)
\* getToken run on the cache m makes a vendor token-issuance call
IssuesToken(m, forceRefresh) ==
  LET rq == GetTokenEntry(Push(IdleReq, "getToken"), forceRefresh,
                          m.token, m.tokenExpiresAt, now)
  IN rq.pc = "tokWait" /\ Has(rq, "call:token")

\* C24: from any state clearToken leaves the Manager with no access token, no
\* expiry and no continuation token; clearing twice is clearing once; and a
\* getToken that runs on what clearToken left calls the vendor for a token
C24_ClearTokenClears ==
  LET c == ClearTokenOf(Manager)
  IN /\ c.token = Null
     /\ c.tokenExpiresAt = NoExpiry
     /\ c.continuationToken = Null
     /\ ClearTokenOf(c) = c
     /\ \A f \in BOOLEAN : IssuesToken(c, f)

\* clearToken has run on a Manager that held both tokens: a request that
\* stored or installed them is still in flight and the cache is empty
C24_Witness ==
  /\ Manager = ClearTokenOf(Manager)
  /\ \E r \in Req : Has(req[r], "storeToken") /\ (Has(req[r], "setCT") \/ Has(req[r], "storeCT"))

\* getToken call r awaits its vendor response and clearToken has run since
\* it started: it found a cached token when it started (and had to replace it),
\* and the cache is empty now, which only clearToken brings about
ClearedInFlight(r) ==
  /\ req[r].kind = "getToken"
  /\ req[r].pc = "tokWait"
  /\ Truthy(req[r].snap.tok)
  /\ Manager = ClearTokenOf(Manager)

\* C27: a getToken call that was awaiting its vendor response when clearToken
\* ran does not repopulate the cache: the step in which it resumes leaves the
\* cache empty
C27_ClearedStaysCleared ==
  [][\A r \in Req :
       ClearedInFlight(r) /\ req'[r] # req[r] =>
         token' = token /\ continuationToken' = continuationToken]_vars

(* ----------------------- session/create: failures ---------------------- *)
\* C29: when session/create answers with an error, a vendor conversation the
\* request created is not left open without a handle: it was closed, or the
\* response still sets a session cookie that names it
C29_NoOrphanConversation ==
  \A r \in Req :
     (/\ req[r].kind = "create"
      /\ req[r].pc = "done"
      /\ req[r].resp.status >= 400
      /\ Has(req[r], "convCreated")) =>
        \/ Has(req[r], "call:close")
        \/ Truthy(req[r].resp.setCookie.conversationId)

(* ------------------------ the conversations POST ----------------------- *)
\* the conversation ids whose fetch was rejected
FailedIds == {batch.ids[i] : i \in {j \in 1..Len(batch.ids) : batch.results[j] = "rejected"}}

\* C30: for every list of requested ids and every subset of them whose fetch
\* fails, each entry of the errors list names a conversation id whose fetch
\* failed, and the successful and failed counts add up to the number of ids
C30_ErrorsNameFailures ==
  batch.pc = "done" /\ batch.status = 200 =>
    /\ \A k \in 1..Len(batch.errors) : batch.errors[k] \in FailedIds
    /\ batch.successful + batch.failed = Len(batch.ids)

\* the counts do add up, and there is one errors entry per failed fetch
CountsAddUp ==
  batch.pc = "done" /\ batch.status = 200 =>
    /\ batch.successful + batch.failed = Len(batch.ids)
    /\ Len(batch.errors) = Len(ErrorsByOwnId(batch.ids, batch.results))

====
